---------------------------- MODULE Spec2Model ----------------------------
(***************************************************************************)
(* A model of legal_ai: the character chunker and the fetch loop of       *)
(* GovInfoParser, the legal classifier and entity extractor of LegalRAG,   *)
(* and the LegalAI session (corpus + index).  Texts are sequences of one-character strings, and    *)
(* Python's indexing and slicing rules (negative indices, clamped slices,  *)
(* IndexError) are modelled as Python computes them.                       *)
(***************************************************************************)
EXTENDS Integers, Sequences, FiniteSets, TLC

VARIABLES
    text,            \* the str argument of the function under analysis
    chunk_size,      \* config["llama_index"]["chunk_size"]
    chunk_overlap,   \* config["llama_index"]["chunk_overlap"]
    start,           \* chunk_document: local start
    end,             \* chunk_document: local end (0 before the first iteration)
    chunks,          \* chunk_document: local chunks
    covered,         \* history: 0-based positions of text held by an emitted chunk
    pc,              \* where the run is: in chunk_document "while", "body",
                     \* "done", "IndexError", "capped"; "enrich"; in
                     \* fetch_document "fetch", "fetch_done"; "session"
                     \* between two calls, "blocked" in a call for ever
    category,        \* the legal_category computed for text ("" before)
    entities,        \* the legal_entities list computed for text
    enriched,        \* which of the two metadata keys have been computed
    documents,       \* LegalAI.documents: the corpus, a list of Documents
    index,           \* LegalAI.index: <<>> for None, else <<the index>>
    rag_index,       \* LegalAI.rag.index
    rag_query_engine,\* LegalAI.rag.query_engine
    builds,          \* history: how many indexes have been built
    loads,           \* history: the successful load_document calls
    last,            \* history: the last call of the session and what it did
    hash_seed,       \* the process's string hash seed (orders list(set(...)))
    fetch_url,       \* fetch_document: the url argument
    retry_attempts,  \* GovInfoParser.retry_attempts
    attempt,         \* fetch_document: the loop variable
    responses,       \* history: what each requests.get call gave, in order
    fetch_result     \* fetch_document: still running, returned a value or raised

chunkVars == <<text, chunk_size, chunk_overlap, start, end, chunks, covered, pc>>

enrichVars == <<category, entities, enriched>>

sessionVars ==
    <<documents, index, rag_index, rag_query_engine, builds, loads, last>>

fetchVars == <<fetch_url, retry_attempts, attempt, responses, fetch_result>>

vars == <<chunkVars, enrichVars,
                   sessionVars, hash_seed, fetchVars>>

-----------------------------------------------------------------------------
(* Bounds of the model *)

MaxLen == 5
MaxChunkSize == 4
MaxOverlap == 3
MaxChunks == 6
MaxDrift == 7
MaxFrags == 3
MaxIter == 10
MaxLoads == 2
MaxBuilds == 2
MaxBatch == 2
MaxRetryAttempts == 3
SessionChunkSize == 12
SessionChunkOverlap == 2

(* core.py:46, the default similarity_top_k *)
SimilarityTopK == 5

(* parsers.py:190, the width of the backward sentence-boundary window *)
BoundaryWindow == 200

-----------------------------------------------------------------------------
(* Python primitives *)

Max(a, b) == IF a >= b THEN a ELSE b
Min(a, b) == IF a <= b THEN a ELSE b

(* str.strip() removes these *)
Whitespace == {" "}

(* parsers.py:191, the characters of '.!?' *)
SentenceEnd == {".", "!", "?"}

(* s[i] is defined for -len(s) <= i < len(s); otherwise IndexError *)
PyIndexOk(s, i) == (-Len(s) <= i) /\ (i < Len(s))

PyIndex(s, i) == IF i >= 0 THEN s[i + 1] ELSE s[Len(s) + i + 1]

(* the bound a slice index is clamped to: negative counts from the end *)
PyClamp(s, i) == IF i < 0 THEN Max(0, Len(s) + i) ELSE Min(i, Len(s))

(* s[lo:hi] *)
PySlice(s, lo, hi) ==
    IF PyClamp(s, lo) >= PyClamp(s, hi) THEN <<>>
    ELSE SubSeq(s, PyClamp(s, lo) + 1, PyClamp(s, hi))

(* 1-based indices of the characters of s that are not whitespace *)
NonBlank(s) == {k \in 1..Len(s) : s[k] \notin Whitespace}

SetMin(S) == CHOOSE x \in S : \A y \in S : x <= y
SetMax(S) == CHOOSE x \in S : \A y \in S : x >= y

(* s.strip() *)
Strip(s) ==
    IF NonBlank(s) = {} THEN <<>>
    ELSE SubSeq(s, SetMin(NonBlank(s)), SetMax(NonBlank(s)))

(* the 0-based positions of s[lo:hi] that survive .strip() *)
StripPositions(s, lo, hi) ==
    LET sl == PySlice(s, lo, hi)
    IN  IF NonBlank(sl) = {} THEN {}
        ELSE (PyClamp(s, lo) + SetMin(NonBlank(sl)) - 1) ..
             (PyClamp(s, lo) + SetMax(NonBlank(sl)) - 1)

-----------------------------------------------------------------------------
(* GovInfoParser.chunk_document, parsers.py:175-203 *)

(* for i in range(end, max(start + chunk_size - 200, start), -1):          *)
(*     if text[i] in '.!?': end = i + 1; break                             *)
(* from index i downwards; stop is the exclusive lower end of the range    *)
RECURSIVE ScanBoundary(_, _, _, _)
ScanBoundary(s, i, stop, e) ==
    IF i <= stop THEN [status |-> "ok", end |-> e]
    ELSE IF ~PyIndexOk(s, i) THEN [status |-> "IndexError", end |-> e]
    ELSE IF PyIndex(s, i) \in SentenceEnd THEN [status |-> "ok", end |-> i + 1]
    ELSE ScanBoundary(s, i - 1, stop, e)

(* line 185: the tentative end *)
TentativeEnd(st, cs) == st + cs

(* lines 188-193: the end of the slice that starts at st, from tentative  *)
(* end e; the scan runs over range(e, max(st + cs - 200, st), -1)          *)
ChunkEnd(s, cs, st, e) ==
    IF e < Len(s)
    THEN ScanBoundary(s, e, Max(st + cs - BoundaryWindow, st), e)
    ELSE [status |-> "ok", end |-> e]

(* lines 195-197: chunk = text[start:end].strip(); if chunk: chunks.append *)
AppendChunk(cks, s, st, e) ==
    IF Strip(PySlice(s, st, e)) # <<>>
    THEN Append(cks, Strip(PySlice(s, st, e)))
    ELSE cks

(* line 199 *)
NextStart(e, ov) == e - ov

(* lines 184-185: the while test holds and end = start + chunk_size *)
ChunkEnter ==
    /\ pc = "while"
    /\ start < Len(text)
    /\ Len(chunks) < MaxChunks
    /\ start >= -MaxDrift
    /\ end' = TentativeEnd(start, chunk_size)
    /\ pc' = "body"
    /\ UNCHANGED <<text, chunk_size, chunk_overlap, start, chunks, covered, enrichVars,
                   sessionVars, hash_seed, fetchVars>>

(* lines 188-201: the boundary scan, the append, the advance and the break *)
ChunkBody ==
    /\ pc = "body"
    /\ LET r == ChunkEnd(text, chunk_size, start, end)
       IN  IF r.status = "IndexError"
           THEN /\ pc' = "IndexError"
                /\ UNCHANGED <<start, end, chunks, covered>>
           ELSE /\ end' = r.end
                /\ chunks' = AppendChunk(chunks, text, start, r.end)
                /\ covered' = covered \cup StripPositions(text, start, r.end)
                /\ start' = NextStart(r.end, chunk_overlap)
                /\ pc' = IF NextStart(r.end, chunk_overlap) >= Len(text)
                         THEN "done" ELSE "while"
    /\ UNCHANGED <<text, chunk_size, chunk_overlap, enrichVars,
                   sessionVars, hash_seed, fetchVars>>

(* line 184 false on entry, line 203: return chunks *)
ChunkReturn ==
    /\ pc = "while"
    /\ ~(start < Len(text))
    /\ pc' = "done"
    /\ UNCHANGED <<text, chunk_size, chunk_overlap, start, end, chunks, covered, enrichVars,
                   sessionVars, hash_seed, fetchVars>>

(* the model stops following a run whose list has grown to MaxChunks or    *)
(* whose start has fallen below -MaxDrift: such a run is still in the loop *)
ChunkCapped ==
    /\ pc = "while"
    /\ start < Len(text)
    /\ (Len(chunks) >= MaxChunks \/ start < -MaxDrift)
    /\ pc' = "capped"
    /\ UNCHANGED <<text, chunk_size, chunk_overlap, start, end, chunks, covered, enrichVars,
                   sessionVars, hash_seed, fetchVars>>

(* fetch_document is not running; parsers.py:22, the default of           *)
(* retry_attempts                                                         *)
DefaultRetryAttempts == 3

FetchIdle ==
    /\ fetch_url = ""
    /\ retry_attempts = DefaultRetryAttempts
    /\ attempt = 0
    /\ responses = <<>>
    /\ fetch_result = [kind |-> "idle"]

(* the LegalAI fields as __init__ leaves them, core.py:24-25 *)
SessionIdle ==
    /\ documents = <<>>
    /\ index = <<>>
    /\ rag_index = <<>>
    /\ rag_query_engine = <<>>
    /\ builds = 0
    /\ loads = <<>>
    /\ last = [op |-> "__init__", arg |-> "", result |-> "ok",
               rag_build |-> FALSE, queried |-> 0, ret |-> <<>>,
               fetched |-> <<>>]
    /\ hash_seed = 1
    /\ FetchIdle

ChunkAlphabet == {".", " ", "a"}

ChunkTexts == UNION {[1..n -> ChunkAlphabet] : n \in 0..MaxLen}

ChunkInit ==
    /\ text \in ChunkTexts
    /\ chunk_size \in 0..MaxChunkSize
    /\ chunk_overlap \in 0..MaxOverlap
    /\ start = 0
    /\ end = 0
    /\ chunks = <<>>
    /\ covered = {}
    /\ pc = "while"
    /\ category = ""
    /\ entities = <<>>
    /\ enriched = {}
    /\ SessionIdle

ChunkNext == ChunkEnter \/ ChunkBody \/ ChunkReturn \/ ChunkCapped

ChunkSpec == ChunkInit /\ [][ChunkNext]_vars

(* a running loop keeps running: the interpreter takes the next step *)
ChunkFairSpec == ChunkSpec /\ WF_vars(ChunkNext)

(* the contract's precondition: chunk_size > 0 and 0 <= overlap < chunk_size *)
ValidConfig == chunk_size > 0 /\ 0 <= chunk_overlap /\ chunk_overlap < chunk_size

-----------------------------------------------------------------------------
(* LegalRAG._classify_legal_content and _extract_legal_entities,           *)
(* rag.py:135-164, on texts given as sequences of characters               *)

UpperCase ==
    <<"A", "B", "C", "D", "E", "F", "G", "H", "I", "J", "K", "L", "M",
      "N", "O", "P", "Q", "R", "S", "T", "U", "V", "W", "X", "Y", "Z">>

LowerCase ==
    <<"a", "b", "c", "d", "e", "f", "g", "h", "i", "j", "k", "l", "m",
      "n", "o", "p", "q", "r", "s", "t", "u", "v", "w", "x", "y", "z">>

(* the lower-case form of one character *)
LowerChar(c) ==
    IF \E k \in 1..Len(UpperCase) : UpperCase[k] = c
    THEN LowerCase[CHOOSE k \in 1..Len(UpperCase) : UpperCase[k] = c]
    ELSE c

(* str.lower() *)
Lower(s) == [k \in 1..Len(s) |-> LowerChar(s[k])]

(* needle in hay, on str: substring search *)
Contains(hay, needle) ==
    \E i \in 1..(Len(hay) - Len(needle) + 1) :
        SubSeq(hay, i, i + Len(needle) - 1) = needle

(* rag.py:139 *)
StructuredTerms ==
    {<<"s", "e", "c", "t", "i", "o", "n">>,
     <<"s", "u", "b", "s", "e", "c", "t", "i", "o", "n">>,
     <<"p", "a", "r", "a", "g", "r", "a", "p", "h">>}

(* rag.py:141 *)
BudgetTerms ==
    {<<"b", "u", "d", "g", "e", "t">>,
     <<"a", "p", "p", "r", "o", "p", "r", "i", "a", "t", "i", "o", "n">>,
     <<"f", "u", "n", "d", "i", "n", "g">>}

(* rag.py:143 *)
LegislativeTerms ==
    {<<"w", "h", "e", "r", "e", "a", "s">>,
     <<"r", "e", "s", "o", "l", "v", "e", "d">>,
     <<"e", "n", "a", "c", "t", "e", "d">>}

(* any(term in text_lower for term in terms) *)
AnyTermIn(text_lower, terms) == \E term \in terms : Contains(text_lower, term)

(* the mutant of the classification: the first two rules in the other order *)
ClassifyBudgetFirst(s) ==
    IF AnyTermIn(Lower(s), BudgetTerms) THEN "budget_document"
    ELSE IF AnyTermIn(Lower(s), StructuredTerms) THEN "structured_legal_text"
    ELSE IF AnyTermIn(Lower(s), LegislativeTerms) THEN "legislative_text"
    ELSE "general_legal"

(* rag.py:135-146 *)
ClassifyLegalContent(s) ==
    IF AnyTermIn(Lower(s), StructuredTerms) THEN "structured_legal_text"
    ELSE IF AnyTermIn(Lower(s), BudgetTerms) THEN "budget_document"
    ELSE IF AnyTermIn(Lower(s), LegislativeTerms) THEN "legislative_text"
    ELSE "general_legal"

(* \d on the characters of the model *)
Digits == {"0", "1", "2", "3", "4", "5", "6", "7", "8", "9"}

(* the first index >= p of s whose character is not in allowed, or        *)
(* Len(s) + 1: where a greedy run of allowed characters from p ends        *)
RunEnd(s, p, allowed) ==
    IF \E k \in p..Len(s) : s[k] \notin allowed
    THEN SetMin({k \in p..Len(s) : s[k] \notin allowed})
    ELSE Len(s) + 1

SectionLiteral ==
    <<"s", "e", "c", "t", "i", "o", "n", " ">>

(* r'Section \d+' with re.IGNORECASE tried at index p: the index after the *)
(* match, or 0 when there is none                                         *)
MatchSection(s, p) ==
    IF /\ p + Len(SectionLiteral) <= Len(s)
       /\ Lower(SubSeq(s, p, p + Len(SectionLiteral) - 1)) = SectionLiteral
       /\ s[p + Len(SectionLiteral)] \in Digits
    THEN RunEnd(s, p + Len(SectionLiteral), Digits)
    ELSE 0

(* r'\$[\d,]+(?:\.\d{2})?' tried at index p: the index after the match, or *)
(* 0 when there is none                                                    *)
MatchAmount(s, p) ==
    IF /\ p + 1 <= Len(s)
       /\ s[p] = "$"
       /\ s[p + 1] \in Digits \cup {","}
    THEN LET q == RunEnd(s, p + 1, Digits \cup {","})
         IN  IF /\ q + 2 <= Len(s)
                /\ s[q] = "."
                /\ s[q + 1] \in Digits
                /\ s[q + 2] \in Digits
             THEN q + 3
             ELSE q
    ELSE 0

MatchAt(pattern, s, p) ==
    IF pattern = "section" THEN MatchSection(s, p) ELSE MatchAmount(s, p)

(* re.findall(pattern, s): the non-overlapping matches, left to right *)
RECURSIVE FindAll(_, _, _)
FindAll(pattern, s, p) ==
    IF p > Len(s) THEN <<>>
    ELSE IF MatchAt(pattern, s, p) # 0
         THEN <<SubSeq(s, p, MatchAt(pattern, s, p) - 1)>>
              \o FindAll(pattern, s, MatchAt(pattern, s, p))
         ELSE FindAll(pattern, s, p + 1)

(* rag.py:151-162: entities after the two extend calls *)
FoundEntities(s) == FindAll("section", s, 1) \o FindAll("amount", s, 1)

Range(q) == {q[k] : k \in 1..Len(q)}

(* the lists list(set(xs)) can be: the members of xs, once each, in any   *)
(* order                                                                  *)
ListOfSet(xs) ==
    {q \in [1..Cardinality(Range(xs)) -> Range(xs)] : Range(q) = Range(xs)}

(* rag.py:148-164: the lists _extract_legal_entities can return *)
ExtractLegalEntities(s) == ListOfSet(FoundEntities(s))

(* the texts of the spec's and the tests' examples *)
SpecEntityExample ==
    <<"S", "e", "c", "t", "i", "o", "n", " ", "1", " ", "p", "r", "o",
    "v", "i", "d", "e", "s", " ", "f", "o", "r", " ", "$", "1", ",", "0",
    "0", "0", ",", "0", "0", "0", " ", "i", "n", " ", "f", "u", "n", "d",
    "i", "n", "g", ".", " ", "S", "e", "c", "t", "i", "o", "n", " ", "2",
    " ", "a", "l", "l", "o", "c", "a", "t", "e", "s", " ", "$", "5", "0",
    "0", ".", "0", "0", " ", "m", "o", "r", "e", ".">>

SpecClassifyExample ==
    <<"S", "e", "c", "t", "i", "o", "n", " ", "1", ".", " ", "B", "u",
    "d", "g", "e", "t", " ", "a", "p", "p", "r", "o", "p", "r", "i", "a",
    "t", "i", "o", "n", " ", "o", "f", " ", "$", "5", "0", "0", ".">>

TestSectionExample ==
    <<"S", "e", "c", "t", "i", "o", "n", " ", "1", ".", " ", "T", "h",
    "i", "s", " ", "i", "s", " ", "a", " ", "l", "e", "g", "a", "l", " ",
    "s", "e", "c", "t", "i", "o", "n", ".">>

TestBudgetExample ==
    <<"T", "h", "e", " ", "b", "u", "d", "g", "e", "t", " ", "a", "p",
    "p", "r", "o", "p", "r", "i", "a", "t", "i", "o", "n", " ", "f", "o",
    "r", " ", "t", "h", "i", "s", " ", "y", "e", "a", "r", " ", "i", "s",
    " ", "$", "1", "M", ".">>

TestWhereasExample ==
    <<"W", "h", "e", "r", "e", "a", "s", " ", "t", "h", "e", " ", "c",
    "o", "n", "g", "r", "e", "s", "s", " ", "f", "i", "n", "d", "s", ".",
    ".", ".">>

TestGeneralExample ==
    <<"T", "h", "i", "s", " ", "i", "s", " ", "g", "e", "n", "e", "r",
    "a", "l", " ", "c", "o", "n", "t", "e", "n", "t", ".">>

RepeatedAmountExample ==
    <<"p", "a", "y", "s", " ", "$", "5", "0", "0", ",", " ", "t", "h",
    "e", "n", " ", "$", "5", "0", "0", ",", " ", "t", "h", "e", "n", " ",
    "S", "E", "C", "T", "I", "O", "N", " ", "7", " ", "a", "n", "d", " ",
    "s", "e", "c", "t", "i", "o", "n", " ", "7">>

ExampleTexts ==
    {SpecEntityExample,
     SpecClassifyExample,
     TestSectionExample,
     TestBudgetExample,
     TestWhereasExample,
     TestGeneralExample,
     RepeatedAmountExample}

(* the pieces the other input texts are concatenated from *)
Fragments ==
    <<<<"S", "e", "c", "t", "i", "o", "n", " ">>,
      <<"S", "E", "C", "T", "I", "O", "N", " ">>,
      <<"s", "u", "b">>,
      <<"b", "u", "d", "g", "e", "t">>,
      <<"W", "h", "e", "r", "e", "a", "s">>,
      <<"1">>,
      <<"2">>,
      <<",">>,
      <<"$">>,
      <<".", "5", "0">>,
      <<" ">>>>

RECURSIVE Concat(_)
Concat(q) == IF q = <<>> THEN <<>> ELSE Head(q) \o Concat(Tail(q))

EnrichTexts ==
    ExampleTexts \cup
    UNION {{Concat([k \in 1..n |-> Fragments[f[k]]]) :
               f \in [1..n -> 1..Len(Fragments)]} : n \in 0..MaxFrags}

(* doc.metadata["legal_category"] = self._classify_legal_content(doc.text), *)
(* rag.py:126                                                              *)
Classify ==
    /\ pc = "enrich"
    /\ "legal_category" \notin enriched
    /\ category' = ClassifyLegalContent(text)
    /\ enriched' = enriched \cup {"legal_category"}
    /\ UNCHANGED <<entities, chunkVars, sessionVars, hash_seed, fetchVars>>

(* doc.metadata["legal_entities"] = self._extract_legal_entities(doc.text), *)
(* rag.py:129                                                              *)
Extract ==
    /\ pc = "enrich"
    /\ "legal_entities" \notin enriched
    /\ entities' \in ExtractLegalEntities(text)
    /\ enriched' = enriched \cup {"legal_entities"}
    /\ UNCHANGED <<category, chunkVars, sessionVars, hash_seed, fetchVars>>

EnrichInit ==
    /\ text \in EnrichTexts
    /\ category = ""
    /\ entities = <<>>
    /\ enriched = {}
    /\ chunk_size = 0
    /\ chunk_overlap = 0
    /\ start = 0
    /\ end = 0
    /\ chunks = <<>>
    /\ covered = {}
    /\ pc = "enrich"
    /\ SessionIdle

EnrichNext == Classify \/ Extract

EnrichSpec == EnrichInit /\ [][EnrichNext]_vars

-----------------------------------------------------------------------------
(* GovInfoParser.chunk_document as one call, parsers.py:175-203 *)

(* the while loop from start st with the chunks cks; a run that has not   *)
(* returned after MaxIter iterations is still in the loop                 *)
RECURSIVE ChunkLoop(_, _, _, _, _, _)
ChunkLoop(s, cs, ov, st, cks, fuel) ==
    IF ~(st < Len(s)) THEN [status |-> "done", chunks |-> cks]
    ELSE IF fuel = 0 THEN [status |-> "loops", chunks |-> cks]
    ELSE LET r == ChunkEnd(s, cs, st, TentativeEnd(st, cs))
         IN  IF r.status = "IndexError"
             THEN [status |-> "IndexError", chunks |-> cks]
             ELSE IF NextStart(r.end, ov) >= Len(s)
                  THEN [status |-> "done",
                        chunks |-> AppendChunk(cks, s, st, r.end)]
                  ELSE ChunkLoop(s, cs, ov, NextStart(r.end, ov),
                                 AppendChunk(cks, s, st, r.end), fuel - 1)

ChunkDocument(s, cs, ov) == ChunkLoop(s, cs, ov, 0, <<>>, MaxIter)

-----------------------------------------------------------------------------
(* The pages behind the URLs a session loads: the text parse_html_content *)
(* returns for each and the metadata extract_metadata reads from its HTML *)

Urls == {"u1", "u2", "u3", "u4", "u5"}

PageText_u1 ==
    <<"S", "e", "c", "t", "i", "o", "n", " ", "1", " ", "$", "5", ",", " ", "o", "k", ".", " ", "W", "h", "e", "r", "e", "a", "s", " ", "x",
    ".">>

PageText_u2 ==
    <<"N", "o", " ", "t", "e", "r", "m", "s", " ", "h", "e", "r", "e", " ", "a", "t", " ", "a", "l", "l">>

PageText_u3 ==
    <<"B", "u", "d", "g", "e", "t", ".">>

PageText_u4 == <<>>

PageText_u5 ==
    <<"a", ".", " ", "a", "a", "a", "a", "a", "a", "a", "a", "a", "a",
    "a", "a", "a", "a", "a", "a">>

(* parse_html_content(fetch_document(url)), parsers.py:35-41 *)
PageText(url) ==
    CASE url = "u1" -> PageText_u1
      [] url = "u2" -> PageText_u2
      [] url = "u3" -> PageText_u3
      [] url = "u4" -> PageText_u4
      [] url = "u5" -> PageText_u5

(* _extract_document_type(url), parsers.py:111-125 *)
DocumentType(url) ==
    CASE url = "u1" -> "bill"
      [] url = "u2" -> "congressional_report"
      [] OTHER -> "unknown"

(* the title and the <meta> tags of the page, parsers.py:94-104; the page *)
(* of u2 carries <meta name="chunk_id"> and <meta name="total_chunks">    *)
PageTags(url) ==
    CASE url = "u1" -> [title |-> "t1"]
      [] url = "u2" -> [title |-> "t2", chunk_id |-> -1, total_chunks |-> -1]
      [] OTHER -> [title |-> "t"]

(* dict.update: the keys of upd replace or extend those of d *)
DictUpdate(d, upd) ==
    [k \in (DOMAIN d) \cup (DOMAIN upd) |->
        IF k \in DOMAIN upd THEN upd[k] ELSE d[k]]

(* extract_metadata, parsers.py:85-109 *)
ExtractMetadata(url) ==
    DictUpdate([source_url |-> url, document_type |-> DocumentType(url)],
               PageTags(url))

(* the mutant of MakeDocuments: chunk_id counted from 1 *)
MakeDocumentsOneBased(cks, metadata, url) ==
    [i \in 1..Len(cks) |->
        [text |-> cks[i],
         metadata |-> DictUpdate(metadata,
                         [chunk_id |-> i,
                          total_chunks |-> Len(cks),
                          source_url |-> url])]]

(* parsers.py:46-59: one Document per chunk; enumerate counts from 0 *)
MakeDocuments(cks, metadata, url) ==
    [i \in 1..Len(cks) |->
        [text |-> cks[i],
         metadata |-> DictUpdate(metadata,
                         [chunk_id |-> i - 1,
                          total_chunks |-> Len(cks),
                          source_url |-> url])]]

(* parse_govinfo_document after a successful fetch, parsers.py:38-62 *)
ParseGovInfoDocument(url, cs, ov) ==
    LET r == ChunkDocument(PageText(url), cs, ov)
    IN  [status |-> r.status,
         documents |-> IF r.status = "done"
                       THEN MakeDocuments(r.chunks, ExtractMetadata(url), url)
                       ELSE <<>>]

(* the configuration of a session is fixed by __init__ (core.py:21-22),   *)
(* so what parsing a page gives is computed once per URL                  *)
ParsedPage ==
    [url \in Urls |->
        ParseGovInfoDocument(url, SessionChunkSize, SessionChunkOverlap)]

-----------------------------------------------------------------------------
(* LegalRAG and LegalAI, rag.py:46-133 and core.py:66-125 *)

Reverse(q) == [k \in 1..Len(q) |-> q[Len(q) + 1 - k]]

(* list(set(...)) within one process: the order follows the process's     *)
(* string hash seed, the same for the same set throughout the process     *)
EntityList(s, seed) ==
    IF seed = 1 THEN CHOOSE q \in ExtractLegalEntities(s) : TRUE
    ELSE Reverse(CHOOSE q \in ExtractLegalEntities(s) : TRUE)

(* the chunk texts of the pages, and for each the two values rag.py:126   *)
(* and 129 compute from it, computed once per text                        *)
PageChunkTexts ==
    UNION {{d.text : d \in Range(ParsedPage[url].documents)} : url \in Urls}

LegalCategoryOf == [t \in PageChunkTexts |-> ClassifyLegalContent(t)]

LegalEntitiesOf ==
    [t \in PageChunkTexts |-> [seed \in {1, 2} |-> EntityList(t, seed)]]

(* _enhance_legal_documents, rag.py:120-133: the two keys are written     *)
(* into the metadata of the Documents passed in, which are the corpus's   *)
EnhanceLegalDocuments(docs, seed) ==
    [i \in 1..Len(docs) |->
        [text |-> docs[i].text,
         metadata |-> DictUpdate(docs[i].metadata,
                         [legal_category |-> LegalCategoryOf[docs[i].text],
                          legal_entities |-> LegalEntitiesOf[docs[i].text][seed]])]]

(* the error messages of the three ValueErrors, and what a failing        *)
(* external call raises                                                   *)
NoDocuments == "No documents loaded. Load documents first."
NeedTwoDocuments == "Need at least 2 documents for comparison"
NoIndex == "No index available. Build index first."
FetchFailed == "requests.RequestException"
EmbeddingFailed == "embedding call failed"
GenerationFailed == "generation call failed"

(* the fields of the LegalAI object and of its LegalRAG object; None is   *)
(* the empty sequence and an object x is <<x>>                            *)
Session ==
    [documents |-> documents, index |-> index, rag_index |-> rag_index,
     rag_query_engine |-> rag_query_engine, builds |-> builds]

(* what a call did: the fields after it, its result ("ok" or the error    *)
(* raised), whether RAGSystem.build_index ran, the index a query engine   *)
(* was run on (0: none was run), and the value returned (None: <<>>)      *)
Outcome(S, result, rag_build, queried, ret) ==
    [state |-> S, result |-> result, rag_build |-> rag_build,
     queried |-> queried, ret |-> ret]

(* index.as_query_engine(similarity_top_k=...), rag.py:56-59 and 67-69 *)
AsQueryEngine(ix) == [index |-> ix.id, similarity_top_k |-> SimilarityTopK]

(* RAGSystem.build_index, rag.py:46-62; embed_ok: from_documents returns *)
RAGSystem_build_index(S, docs, embed_ok) ==
    IF embed_ok
    THEN LET ix == [id |-> S.builds + 1, nodes |-> docs]
         IN  Outcome([S EXCEPT !.rag_index = <<ix>>,
                               !.rag_query_engine = <<AsQueryEngine(ix)>>,
                               !.builds = S.builds + 1],
                     "ok", TRUE, 0, <<ix>>)
    ELSE Outcome(S, EmbeddingFailed, TRUE, 0, <<>>)

(* LegalRAG.build_index, rag.py:113-118: the Documents enhanced are the   *)
(* objects of the list passed in                                          *)
LegalRAG_build_index(S, seed, embed_ok) ==
    RAGSystem_build_index(
        [S EXCEPT !.documents = EnhanceLegalDocuments(S.documents, seed)],
        EnhanceLegalDocuments(S.documents, seed), embed_ok)

(* the mutant of LegalAI.build_index: no check for an empty corpus *)
LegalAI_build_index_unchecked(S, seed, embed_ok) ==
    LET r == LegalRAG_build_index(S, seed, embed_ok)
    IN  IF r.result = "ok"
        THEN Outcome([r.state EXCEPT !.index = r.ret], "ok", TRUE, 0, <<>>)
        ELSE r

(* LegalAI.build_index, core.py:83-90 *)
LegalAI_build_index(S, seed, embed_ok) ==
    IF S.documents = <<>>
    THEN Outcome(S, NoDocuments, FALSE, 0, <<>>)
    ELSE LET r == LegalRAG_build_index(S, seed, embed_ok)
         IN  IF r.result = "ok"
             THEN Outcome([r.state EXCEPT !.index = r.ret], "ok", TRUE, 0, <<>>)
             ELSE r

(* query_engine.query(question) and str(response), rag.py:76-78 *)
RunQueryEngine(S, engine, rag_build, llm_ok) ==
    IF llm_ok
    THEN Outcome(S, "ok", rag_build, engine.index, <<[answered_from |-> engine.index]>>)
    ELSE Outcome(S, GenerationFailed, rag_build, engine.index, <<>>)

(* the mutant of RAGSystem.query: the stored engine is preferred to the   *)
(* index passed                                                           *)
RAGSystem_query_stored_first(S, ix, rag_build, llm_ok) ==
    IF S.rag_query_engine # <<>>
    THEN RunQueryEngine(S, S.rag_query_engine[1], rag_build, llm_ok)
    ELSE IF ix # <<>>
         THEN RunQueryEngine(S, AsQueryEngine(ix[1]), rag_build, llm_ok)
         ELSE Outcome(S, NoIndex, rag_build, 0, <<>>)

(* RAGSystem.query, rag.py:64-78; ix is the index argument, llm_ok: the   *)
(* query engine returns                                                   *)
RAGSystem_query(S, ix, rag_build, llm_ok) ==
    IF ix # <<>>
    THEN RunQueryEngine(S, AsQueryEngine(ix[1]), rag_build, llm_ok)
    ELSE IF S.rag_query_engine # <<>>
         THEN RunQueryEngine(S, S.rag_query_engine[1], rag_build, llm_ok)
         ELSE Outcome(S, NoIndex, rag_build, 0, <<>>)

(* the mutant of LegalAI.query: the index is never built on first use *)
LegalAI_query_no_lazy_build(S, seed, embed_ok, llm_ok) ==
    RAGSystem_query(S, S.index, FALSE, llm_ok)

(* LegalAI.query, core.py:92-104 *)
LegalAI_query(S, seed, embed_ok, llm_ok) ==
    IF S.index = <<>>
    THEN LET b == LegalAI_build_index(S, seed, embed_ok)
         IN  IF b.result # "ok" THEN b
             ELSE RAGSystem_query(b.state, b.state.index, b.rag_build, llm_ok)
    ELSE RAGSystem_query(S, S.index, FALSE, llm_ok)

(* the mutant of LegalAI.compare_documents: the corpus is only checked    *)
(* for being empty                                                        *)
LegalAI_compare_documents_one(S, seed, embed_ok, llm_ok) ==
    IF Len(S.documents) < 1
    THEN Outcome(S, NeedTwoDocuments, FALSE, 0, <<>>)
    ELSE LegalAI_query(S, seed, embed_ok, llm_ok)

(* LegalAI.compare_documents, core.py:106-117 *)
LegalAI_compare_documents(S, seed, embed_ok, llm_ok) ==
    IF Len(S.documents) < 2
    THEN Outcome(S, NeedTwoDocuments, FALSE, 0, <<>>)
    ELSE LegalAI_query(S, seed, embed_ok, llm_ok)


(* what a load did: as Outcome, with the URLs parse_govinfo_document was  *)
(* called for, in call order, and the loads that extended the corpus      *)
LoadOutcome(S, result, fetched, loaded) ==
    [state |-> S, result |-> result, rag_build |-> FALSE, queried |-> 0,
     ret |-> <<>>, fetched |-> fetched, loaded |-> loaded]

(* a call that is still running: chunk_document does not leave its loop *)
NeverReturns == "never returns"

(* the mutant of LegalAI.load_document: the new chunks are put in front   *)
(* of the corpus                                                          *)
LegalAI_load_document_prepending(S, url, fetch_ok) ==
    LET p == ParsedPage[url]
    IN  IF ~fetch_ok THEN LoadOutcome(S, FetchFailed, <<url>>, <<>>)
        ELSE IF p.status = "loops" THEN LoadOutcome(S, NeverReturns, <<url>>, <<>>)
        ELSE IF p.status = "IndexError"
        THEN LoadOutcome(S, "IndexError", <<url>>, <<>>)
        ELSE LoadOutcome([S EXCEPT !.documents = p.documents \o S.documents],
                         "ok", <<url>>,
                         <<[url |-> url, first |-> Len(S.documents) + 1,
                            n |-> Len(p.documents)]>>)

(* the mutant of LegalAI.load_document: the corpus is replaced by the new *)
(* chunks                                                                 *)
LegalAI_load_document_replacing(S, url, fetch_ok) ==
    LET p == ParsedPage[url]
    IN  IF ~fetch_ok THEN LoadOutcome(S, FetchFailed, <<url>>, <<>>)
        ELSE IF p.status = "loops" THEN LoadOutcome(S, NeverReturns, <<url>>, <<>>)
        ELSE IF p.status = "IndexError"
        THEN LoadOutcome(S, "IndexError", <<url>>, <<>>)
        ELSE LoadOutcome([S EXCEPT !.documents = p.documents],
                         "ok", <<url>>,
                         <<[url |-> url, first |-> 1, n |-> Len(p.documents)]>>)

(* the mutant of LegalAI.load_document: a successful load drops the index *)
LegalAI_load_document_dropping_index(S, url, fetch_ok) ==
    LET p == ParsedPage[url]
    IN  IF ~fetch_ok THEN LoadOutcome(S, FetchFailed, <<url>>, <<>>)
        ELSE IF p.status = "loops" THEN LoadOutcome(S, NeverReturns, <<url>>, <<>>)
        ELSE IF p.status = "IndexError"
        THEN LoadOutcome(S, "IndexError", <<url>>, <<>>)
        ELSE LoadOutcome([S EXCEPT !.documents = S.documents \o p.documents,
                                   !.index = <<>>],
                         "ok", <<url>>,
                         <<[url |-> url, first |-> Len(S.documents) + 1,
                            n |-> Len(p.documents)]>>)

(* LegalAI.load_document(url), core.py:66-75; fetch_ok: fetch_document    *)
(* returns the page rather than raising after its retries                 *)
LegalAI_load_document(S, url, fetch_ok) ==
    LET p == ParsedPage[url]
    IN  IF ~fetch_ok THEN LoadOutcome(S, FetchFailed, <<url>>, <<>>)
        ELSE IF p.status = "loops" THEN LoadOutcome(S, NeverReturns, <<url>>, <<>>)
        ELSE IF p.status = "IndexError"
        THEN LoadOutcome(S, "IndexError", <<url>>, <<>>)
        ELSE LoadOutcome([S EXCEPT !.documents = S.documents \o p.documents],
                         "ok", <<url>>,
                         <<[url |-> url, first |-> Len(S.documents) + 1,
                            n |-> Len(p.documents)]>>)

(* the mutant of the loop of load_documents: a failing URL is skipped *)
RECURSIVE LoadLoopSkipping(_, _, _, _, _, _)
LoadLoopSkipping(S, urls, oks, k, fetched, loaded) ==
    IF k > Len(urls) THEN LoadOutcome(S, "ok", fetched, loaded)
    ELSE LET r == LegalAI_load_document(S, urls[k], oks[k])
         IN  IF r.result = NeverReturns
             THEN LoadOutcome(r.state, r.result, fetched \o r.fetched, loaded)
             ELSE LoadLoopSkipping(r.state, urls, oks, k + 1,
                                   fetched \o r.fetched, loaded \o r.loaded)

(* the for loop of load_documents from the k-th URL, core.py:80-81: an    *)
(* exception of load_document leaves the loop and the function            *)
RECURSIVE LoadLoop(_, _, _, _, _, _)
LoadLoop(S, urls, oks, k, fetched, loaded) ==
    IF k > Len(urls) THEN LoadOutcome(S, "ok", fetched, loaded)
    ELSE LET r == LegalAI_load_document(S, urls[k], oks[k])
         IN  IF r.result # "ok"
             THEN LoadOutcome(r.state, r.result, fetched \o r.fetched, loaded)
             ELSE LoadLoop(r.state, urls, oks, k + 1,
                           fetched \o r.fetched, loaded \o r.loaded)

(* the mutant of LegalAI.load_documents: it goes on after a failing URL *)
LegalAI_load_documents_skipping(S, urls, oks) ==
    LoadLoopSkipping(S, urls, oks, 1, <<>>, <<>>)

(* LegalAI.load_documents(urls), core.py:77-81; oks[k]: the fetch of the  *)
(* k-th URL returns the page                                              *)
LegalAI_load_documents(S, urls, oks) == LoadLoop(S, urls, oks, 1, <<>>, <<>>)

(* the lists of URLs a caller passes to load_documents *)
UrlLists == UNION {[1..n -> Urls] : n \in 0..MaxBatch}

(* the fields of the session after a call, and the record of the call; a  *)
(* call that never returns leaves the session blocked in it               *)
Finish(op, arg, r) ==
    /\ documents' = r.state.documents
    /\ index' = r.state.index
    /\ rag_index' = r.state.rag_index
    /\ rag_query_engine' = r.state.rag_query_engine
    /\ builds' = r.state.builds
    /\ last' = [op |-> op, arg |-> arg, result |-> r.result,
                rag_build |-> r.rag_build, queried |-> r.queried, ret |-> r.ret,
                fetched |-> IF "fetched" \in DOMAIN r THEN r.fetched ELSE <<>>]
    /\ loads' = IF "loaded" \in DOMAIN r THEN loads \o r.loaded ELSE loads
    /\ pc' = IF r.result = NeverReturns THEN "blocked" ELSE pc

(* a call of load_document by the user of the session *)
LoadDocument(url, fetch_ok) ==
    /\ pc = "session"
    /\ Len(loads) < MaxLoads
    /\ Finish("load_document", url, LegalAI_load_document(Session, url, fetch_ok))
    /\ UNCHANGED <<text, chunk_size, chunk_overlap, start, end, chunks, covered,
                   enrichVars, hash_seed, fetchVars>>

(* a call of load_documents by the user of the session *)
LoadDocuments(urls, oks) ==
    /\ pc = "session"
    /\ Len(loads) + Len(urls) <= MaxLoads
    /\ Finish("load_documents", urls, LegalAI_load_documents(Session, urls, oks))
    /\ UNCHANGED <<text, chunk_size, chunk_overlap, start, end, chunks, covered,
                   enrichVars, hash_seed, fetchVars>>

(* LegalAI.build_index(), core.py:83-90 *)
BuildIndex(embed_ok) ==
    /\ pc = "session"
    /\ builds < MaxBuilds
    /\ Finish("build_index", "", LegalAI_build_index(Session, hash_seed, embed_ok))
    /\ UNCHANGED <<text, chunk_size, chunk_overlap, start, end, chunks, covered,
                   enrichVars, hash_seed, fetchVars>>

(* LegalAI.query(question), core.py:92-104 *)
Query(embed_ok, llm_ok) ==
    /\ pc = "session"
    /\ Finish("query", "", LegalAI_query(Session, hash_seed, embed_ok, llm_ok))
    /\ UNCHANGED <<text, chunk_size, chunk_overlap, start, end, chunks, covered,
                   enrichVars, hash_seed, fetchVars>>

(* LegalAI.compare_documents(query), core.py:106-117 *)
CompareDocuments(embed_ok, llm_ok) ==
    /\ pc = "session"
    /\ Finish("compare_documents", "",
              LegalAI_compare_documents(Session, hash_seed, embed_ok, llm_ok))
    /\ UNCHANGED <<text, chunk_size, chunk_overlap, start, end, chunks, covered,
                   enrichVars, hash_seed, fetchVars>>

(* an index that was not built by the session's RAG object *)
OtherIndex == [id |-> MaxBuilds + 1, nodes |-> <<>>]

(* a call of query on the session's RAG object (LegalAI.rag) by the user, *)
(* rag.py:64-78, with no index, the session's index or another index      *)
RagQuery(ix, llm_ok) ==
    /\ pc = "session"
    /\ Finish("rag.query", ix, RAGSystem_query(Session, ix, FALSE, llm_ok))
    /\ UNCHANGED <<text, chunk_size, chunk_overlap, start, end, chunks, covered,
                   enrichVars, hash_seed, fetchVars>>

(* LegalAI.get_document_summary(), core.py:119-125 *)
GetDocumentSummary ==
    /\ pc = "session"
    /\ Finish("get_document_summary", "",
              Outcome(Session, "ok", FALSE, 0,
                      <<[total_documents |-> Len(documents),
                         has_index |-> index # <<>>]>>))
    /\ UNCHANGED <<text, chunk_size, chunk_overlap, start, end, chunks, covered,
                   enrichVars, hash_seed, fetchVars>>

(* LegalAI.__init__, core.py:18-29, with the configuration of the session *)
Init ==
    /\ documents = <<>>
    /\ index = <<>>
    /\ rag_index = <<>>
    /\ rag_query_engine = <<>>
    /\ builds = 0
    /\ loads = <<>>
    /\ last = [op |-> "__init__", arg |-> "", result |-> "ok",
               rag_build |-> FALSE, queried |-> 0, ret |-> <<>>,
               fetched |-> <<>>]
    /\ hash_seed \in {1, 2}
    /\ FetchIdle
    /\ chunk_size = SessionChunkSize
    /\ chunk_overlap = SessionChunkOverlap
    /\ text = <<>>
    /\ start = 0
    /\ end = 0
    /\ chunks = <<>>
    /\ covered = {}
    /\ pc = "session"
    /\ category = ""
    /\ entities = <<>>
    /\ enriched = {}

Next ==
    \/ \E url \in Urls, fetch_ok \in BOOLEAN : LoadDocument(url, fetch_ok)
    \/ \E urls \in UrlLists :
           /\ Len(loads) + Len(urls) <= MaxLoads
           /\ \E oks \in [DOMAIN urls -> BOOLEAN] : LoadDocuments(urls, oks)
    \/ \E embed_ok \in BOOLEAN : BuildIndex(embed_ok)
    \/ \E embed_ok \in BOOLEAN, llm_ok \in BOOLEAN : Query(embed_ok, llm_ok)
    \/ \E embed_ok \in BOOLEAN, llm_ok \in BOOLEAN : CompareDocuments(embed_ok, llm_ok)
    \/ \E ix \in {<<>>, index, <<OtherIndex>>}, llm_ok \in BOOLEAN : RagQuery(ix, llm_ok)
    \/ GetDocumentSummary

Spec == Init /\ [][Next]_vars

-----------------------------------------------------------------------------
(* GovInfoParser.fetch_document, parsers.py:64-83 *)

(* what requests.get followed by raise_for_status gives: the response, or *)
(* one of the requests.RequestException subclasses                       *)
RequestErrors == {"Timeout", "HTTPError"}
RequestOutcomes == {"response"} \cup RequestErrors

(* response.text of the page behind url *)
ResponseText(url) == <<"html of", url>>

(* the except block, parsers.py:77-83, for attempt att of n that raised   *)
(* e: sleep and go round again, or re-raise on the last attempt           *)
FetchFailure(att, n, e) ==
    IF att < n - 1
    THEN [attempt |-> att + 1, result |-> [kind |-> "running"]]
    ELSE [attempt |-> att, result |-> [kind |-> "raised", error |-> e]]

(* one round of the for loop, parsers.py:66-83: the sleeps do not change  *)
(* the state; a response is returned at once                              *)
FetchAttempt(outcome) ==
    /\ pc = "fetch"
    /\ attempt < retry_attempts
    /\ Len(responses) = attempt
    /\ responses' = Append(responses, outcome)
    /\ IF outcome = "response"
       THEN /\ fetch_result' = [kind |-> "returned",
                                value |-> <<ResponseText(fetch_url)>>]
            /\ UNCHANGED attempt
       ELSE /\ attempt' = FetchFailure(attempt, retry_attempts, outcome).attempt
            /\ fetch_result' = FetchFailure(attempt, retry_attempts, outcome).result
    /\ pc' = IF fetch_result'.kind = "running" THEN "fetch" ELSE "fetch_done"
    /\ UNCHANGED <<text, chunk_size, chunk_overlap, start, end, chunks, covered,
                   enrichVars, sessionVars, hash_seed, fetch_url, retry_attempts>>

(* range(self.retry_attempts) is exhausted, parsers.py:66: the function   *)
(* ends without a return statement, which returns None                    *)
FetchFallThrough ==
    /\ pc = "fetch"
    /\ ~(attempt < retry_attempts)
    /\ fetch_result' = [kind |-> "returned", value |-> <<>>]
    /\ pc' = "fetch_done"
    /\ UNCHANGED <<text, chunk_size, chunk_overlap, start, end, chunks, covered,
                   enrichVars, sessionVars, hash_seed, fetch_url, retry_attempts,
                   attempt, responses>>

(* a parser configured with govinfo.retry_attempts, parsers.py:22, and a  *)
(* call of fetch_document(url)                                            *)
FetchInit ==
    /\ fetch_url \in Urls
    /\ retry_attempts \in 0..MaxRetryAttempts
    /\ attempt = 0
    /\ responses = <<>>
    /\ fetch_result = [kind |-> "running"]
    /\ pc = "fetch"
    /\ text = <<>>
    /\ chunk_size = SessionChunkSize
    /\ chunk_overlap = SessionChunkOverlap
    /\ start = 0
    /\ end = 0
    /\ chunks = <<>>
    /\ covered = {}
    /\ category = ""
    /\ entities = <<>>
    /\ enriched = {}
    /\ documents = <<>>
    /\ index = <<>>
    /\ rag_index = <<>>
    /\ rag_query_engine = <<>>
    /\ builds = 0
    /\ loads = <<>>
    /\ last = [op |-> "__init__", arg |-> "", result |-> "ok",
               rag_build |-> FALSE, queried |-> 0, ret |-> <<>>,
               fetched |-> <<>>]
    /\ hash_seed = 1

FetchNext ==
    \/ \E outcome \in RequestOutcomes : FetchAttempt(outcome)
    \/ FetchFallThrough

FetchSpec == FetchInit /\ [][FetchNext]_vars

-----------------------------------------------------------------------------
(* Claims about chunk_document *)

(* C1: for every text and every valid configuration chunk_document        *)
(* terminates: the loop eventually reaches start >= len(text) and returns *)
(* (a run the model stopped following at its cap is not counted against). *)
C1_ChunkTerminates == ValidConfig => <>(pc \in {"done", "capped"})

(* C2: under a valid configuration every emitted chunk has length         *)
(* <= chunk_size.                                                         *)
C2_ChunkWithinSize ==
    ValidConfig => \A k \in 1..Len(chunks) : Len(chunks[k]) <= chunk_size

(* C3: with chunk_overlap >= chunk_size or chunk_size <= 0 chunk_document *)
(* fails with a configuration error: it never enters the loop body, never *)
(* emits a chunk and never returns a list.                                *)
C3_InvalidConfigRejected ==
    ~ValidConfig => (pc \notin {"body", "done"} /\ chunks = <<>>)

(* C4: under a valid configuration the successive slices leave no gap:    *)
(* each next slice starts at or before the previous slice's end, and on   *)
(* return every non-whitespace position of the text is in an emitted      *)
(* chunk.                                                                 *)
C4_ChunkCoverage ==
    ValidConfig =>
        /\ (pc = "while" => PyClamp(text, start) <= end)
        /\ (pc = "done" =>
               \A p \in 0..(Len(text) - 1) :
                   text[p + 1] \notin Whitespace => p \in covered)

(* C5: under a valid configuration every chunk has length at most         *)
(* chunk_size + chunk_overlap, and a returned list has more than one      *)
(* chunk when the text is longer than chunk_size.                         *)
C5_ChunkWithinSizePlusOverlap ==
    ValidConfig =>
        /\ \A k \in 1..Len(chunks) : Len(chunks[k]) <= chunk_size + chunk_overlap
        /\ (pc = "done" /\ Len(text) > chunk_size) => Len(chunks) > 1

-----------------------------------------------------------------------------
(* Claims about the classifier and the entity extractor *)

(* the two characters are the same letter, whatever their case *)
SameIgnoringCase(a, b) ==
    \/ a = b
    \/ \E k \in 1..Len(UpperCase) : {a, b} = {UpperCase[k], LowerCase[k]}

(* the term occurs in s as a substring, compared case-insensitively *)
OccursIgnoringCase(s, term) ==
    \E i \in 1..(Len(s) - Len(term) + 1) :
        \A j \in 1..Len(term) : SameIgnoringCase(s[i + j - 1], term[j])

(* the ordered rule list of the classification *)
RuleTerms == <<StructuredTerms, BudgetTerms, LegislativeTerms>>
RuleCategory == <<"structured_legal_text", "budget_document", "legislative_text">>

MatchingRules(s) ==
    {r \in 1..Len(RuleTerms) : \E term \in RuleTerms[r] : OccursIgnoringCase(s, term)}

(* C7: the category is that of the first rule of the ordered list with a  *)
(* term occurring in the text case-insensitively, general_legal when no   *)
(* rule matches; a text matching rules 1 and 2 is structured_legal_text.  *)
C7_FirstMatchClassification ==
    "legal_category" \in enriched =>
        category = IF MatchingRules(text) = {} THEN "general_legal"
                   ELSE RuleCategory[SetMin(MatchingRules(text))]

(* C7 witness: a classified text with upper-case letters that matches     *)
(* rule 1 and rule 2 and is classified structured_legal_text              *)
C7_Witness ==
    /\ "legal_category" \in enriched
    /\ {1, 2} \subseteq MatchingRules(text)
    /\ text # Lower(text)
    /\ category = "structured_legal_text"

(* `Section <digits>`, case-insensitive *)
IsSectionRef(e) ==
    /\ Len(e) > Len(SectionLiteral)
    /\ \A k \in 1..Len(SectionLiteral) : SameIgnoringCase(e[k], SectionLiteral[k])
    /\ \A k \in (Len(SectionLiteral) + 1)..Len(e) : e[k] \in Digits

(* `$<digits with optional thousands separators><optional .NN>`: a dollar *)
(* sign, digits and commas that begin and end with a digit, then          *)
(* optionally a point and two digits                                      *)
IsAmount(e) ==
    /\ Len(e) >= 2
    /\ e[1] = "$"
    /\ e[2] \in Digits
    /\ LET q == RunEnd(e, 2, Digits \cup {","})
       IN  /\ e[q - 1] \in Digits
           /\ \/ q = Len(e) + 1
              \/ /\ q + 2 = Len(e)
                 /\ e[q] = "."
                 /\ e[q + 1] \in Digits
                 /\ e[q + 2] \in Digits

IsEntity(e) == IsSectionRef(e) \/ IsAmount(e)

(* the substrings of s that match one of the two patterns and cannot be   *)
(* extended to the right into a longer match                              *)
EntitySubstrings(s) ==
    {SubSeq(s, i, j) : <<i, j>> \in
        {ij \in (1..Len(s)) \X (1..Len(s)) :
            /\ ij[1] <= ij[2]
            /\ IsEntity(SubSeq(s, ij[1], ij[2]))
            /\ \A j2 \in (ij[2] + 1)..Len(s) : ~IsEntity(SubSeq(s, ij[1], j2))}}

SpecEntityExampleResult ==
    {<<"S", "e", "c", "t", "i", "o", "n", " ", "1">>,
     <<"S", "e", "c", "t", "i", "o", "n", " ", "2">>,
     <<"$", "1", ",", "0", "0", "0", ",", "0", "0", "0">>,
     <<"$", "5", "0", "0", ".", "0", "0">>}

(* C8: the returned list has no duplicates and holds exactly the          *)
(* substrings of the text that match `Section <digits>` or                *)
(* `$<digits with optional thousands separators><optional .NN>`; for the  *)
(* spec's example text it is the four entities of the example.            *)
C8_ExactlyTheEntities ==
    "legal_entities" \in enriched =>
        /\ Cardinality(Range(entities)) = Len(entities)
        /\ Range(entities) = EntitySubstrings(text)
        /\ text = SpecEntityExample => Range(entities) = SpecEntityExampleResult

-----------------------------------------------------------------------------
(* Claims about the LegalAI session *)

(* C6: the N Documents of one parse_govinfo_document call carry chunk_id  *)
(* 0..N-1 in list order and total_chunks = N, and still do after any      *)
(* later load_document, build_index and query calls; every Document of    *)
(* the corpus comes from one such call.                                   *)
C6_ChunkIdsOfEachLoad ==
    /\ \A l \in Range(loads) :
           \A k \in 0..(l.n - 1) :
               /\ documents[l.first + k].metadata["chunk_id"] = k
               /\ documents[l.first + k].metadata["total_chunks"] = l.n
               /\ documents[l.first + k].metadata["source_url"] = l.url
    /\ \A i \in 1..Len(documents) :
           \E l \in Range(loads) : l.first <= i /\ i < l.first + l.n

(* C6 witness: a page split into three or more chunks and a page whose    *)
(* HTML names chunk_id are in the corpus, enhanced by a build, and a      *)
(* query has been answered                                                *)
C6_Witness ==
    /\ \E l \in Range(loads) : l.n >= 3
    /\ \E l \in Range(loads) : l.n >= 1 /\ "chunk_id" \in DOMAIN PageTags(l.url)
    /\ \A i \in 1..Len(documents) :
           "legal_category" \in DOMAIN documents[i].metadata
    /\ last.op = "query"
    /\ last.result = "ok"

(* C9: build_index called while no documents are loaded raises the        *)
(* no-documents error, does not run the RAG build and leaves the index    *)
(* absent.                                                                *)
C9_BuildOnEmptyCorpusFails ==
    [][(last'.op = "build_index" /\ documents = <<>>) =>
           /\ last'.result = NoDocuments
           /\ ~last'.rag_build
           /\ index = <<>>
           /\ index' = <<>>
           /\ rag_index' = rag_index
           /\ documents' = <<>>]_vars

(* C9 witness: build_index has just failed on the empty corpus *)
C9_Witness ==
    /\ last.op = "build_index"
    /\ last.result = NoDocuments
    /\ documents = <<>>
    /\ index = <<>>

(* C10: compare_documents with fewer than 2 Documents in the corpus       *)
(* raises its error before any build or query and leaves documents and    *)
(* index unchanged; with 2 or more Documents it does not raise that       *)
(* error.                                                                 *)
C10_CompareNeedsTwoDocuments ==
    [][last'.op = "compare_documents" =>
           IF Len(documents) < 2
           THEN /\ last'.result = NeedTwoDocuments
                /\ ~last'.rag_build
                /\ last'.queried = 0
                /\ documents' = documents
                /\ index' = index
                /\ rag_index' = rag_index
           ELSE last'.result # NeedTwoDocuments]_vars

(* C10 witness: compare_documents has just failed on a corpus of exactly  *)
(* one chunk Document                                                     *)
C10_Witness ==
    /\ last.op = "compare_documents"
    /\ last.result = NeedTwoDocuments
    /\ Len(documents) = 1

(* C11 as stated: whenever the embedding and the generation service       *)
(* answer, a query made with no index builds one and answers, and the     *)
(* index is present afterwards; a query made with an index builds none.   *)
C11_QueryAlwaysBuildsAndAnswers ==
    [][(/\ last'.op = "query"
        /\ last'.result \notin {EmbeddingFailed, GenerationFailed}) =>
           IF index = <<>>
           THEN /\ last'.rag_build
                /\ last'.result = "ok"
                /\ index' # <<>>
           ELSE ~last'.rag_build]_vars

(* C11 amended: a query made with no index calls build_index on the       *)
(* current corpus.  On an empty corpus that raises the no-documents       *)
(* error and the index stays absent.  On a non-empty corpus the RAG build *)
(* runs; unless the embedding call fails the index is present afterwards, *)
(* holds the current corpus and is the index the query engine is run on.  *)
(* The query never fails for lack of an index.  A query made with an      *)
(* index builds none and runs on that index.                              *)
C11_LazyBuildOnFirstUse ==
    [][last'.op = "query" =>
           /\ last'.result # NoIndex
           /\ IF index # <<>>
              THEN /\ ~last'.rag_build
                   /\ index' = index
                   /\ last'.queried = index[1].id
              ELSE IF documents = <<>>
              THEN /\ last'.result = NoDocuments
                   /\ ~last'.rag_build
                   /\ last'.queried = 0
                   /\ index' = <<>>
              ELSE /\ last'.rag_build
                   /\ last'.result \in {"ok", EmbeddingFailed, GenerationFailed}
                   /\ IF last'.result = EmbeddingFailed
                      THEN index' = <<>> /\ last'.queried = 0
                      ELSE /\ index' # <<>>
                           /\ index'[1].nodes = documents'
                           /\ Len(documents') = Len(documents)
                           /\ last'.queried = index'[1].id
                           /\ index'[1].id = builds'
                           /\ builds' = builds + 1]_vars

(* C11 witness: a query made with no index on a non-empty corpus has      *)
(* built the index and answered from it                                   *)
C11_Witness ==
    /\ last.op = "query"
    /\ last.result = "ok"
    /\ last.rag_build
    /\ index # <<>>
    /\ last.queried = index[1].id

(* the Document as parse_govinfo_document created it: its text and the    *)
(* metadata keys other than the two the legal enhancement writes          *)
AsCreated(d) ==
    [text |-> d.text,
     metadata |-> [k \in (DOMAIN d.metadata) \ {"legal_category", "legal_entities"}
                      |-> d.metadata[k]]]

(* the chunks of the page behind each URL under the session's             *)
(* configuration                                                          *)
ChunksOfPage ==
    [url \in Urls |->
        ChunkDocument(PageText(url), SessionChunkSize, SessionChunkOverlap).chunks]

PageChunks(url) == ChunksOfPage[url]

(* C12: in every step of the session the Documents of the corpus stay,    *)
(* in their order, at the front of the new corpus; a successful           *)
(* load_document appends the chunks of its URL at the end in chunk_id     *)
(* order; no other operation than a load changes the length.              *)
C12_CorpusAppendOnly ==
    [][/\ Len(documents) <= Len(documents')
       /\ \A i \in 1..Len(documents) :
              AsCreated(documents'[i]) = AsCreated(documents[i])
       /\ (last'.op = "load_document" /\ last'.result = "ok") =>
              /\ Len(documents') = Len(documents) + Len(PageChunks(last'.arg))
              /\ \A k \in 1..Len(PageChunks(last'.arg)) :
                     LET d == documents'[Len(documents) + k]
                     IN  /\ d.text = PageChunks(last'.arg)[k]
                         /\ d.metadata["source_url"] = last'.arg
                         /\ d.metadata["chunk_id"] = k - 1
       /\ (last'.op \notin {"load_document", "load_documents"}) =>
              Len(documents') = Len(documents)]_vars

(* C12 witness: a load_document has appended two or more chunks to a      *)
(* corpus of another URL that a build had already enhanced                *)
C12_Witness ==
    /\ last.op = "load_document"
    /\ last.result = "ok"
    /\ Len(loads) >= 2
    /\ loads[Len(loads)].n >= 2
    /\ loads[Len(loads)].first > 1
    /\ documents[1].metadata["source_url"] # last.arg
    /\ "legal_category" \in DOMAIN documents[1].metadata
    /\ index # <<>>

(* C13: once a Document is in the corpus no operation changes its text    *)
(* or its metadata mapping.                                               *)
C13_DocumentsImmutable ==
    [][\A i \in 1..Len(documents) : documents'[i] = documents[i]]_vars

(* C14: load_document and load_documents, failing or not, a query made    *)
(* with an index and get_document_summary leave the index as it is; the   *)
(* index changes only in a call that ran a build, to the index of that    *)
(* build; so whatever was ingested since, the index a query runs on is    *)
(* the one of the last build.                                             *)
C14_IndexChangedOnlyByBuild ==
    [][/\ (\/ last'.op \in {"load_document", "load_documents",
                            "get_document_summary"}
           \/ last'.op = "query" /\ index # <<>>) => index' = index
       /\ index' # index =>
              /\ last'.rag_build
              /\ builds' = builds + 1
              /\ index' # <<>>
              /\ index'[1].id = builds'
       /\ (last'.op = "query" /\ last'.queried # 0) =>
              last'.queried = builds']_vars

(* C14 witness: a query has been answered from the index of the last      *)
(* build although documents were ingested between that build and the      *)
(* query                                                                  *)
C14_Witness ==
    /\ last.op = "query"
    /\ last.result = "ok"
    /\ ~last.rag_build
    /\ index # <<>>
    /\ last.queried = index[1].id
    /\ Len(index[1].nodes) < Len(documents)

(* C16: query on the RAG object fails without running a query engine      *)
(* exactly when no index is passed and no build has succeeded on the      *)
(* object; an index passed is the one queried; with none passed the       *)
(* engine stored by the last successful build is run.                     *)
C16_RagQueryNeedsAnIndex ==
    [][last'.op = "rag.query" =>
           /\ (last'.result # "ok" /\ last'.queried = 0)
                  <=> (last'.arg = <<>> /\ builds = 0)
           /\ last'.result = NoIndex <=> (last'.arg = <<>> /\ builds = 0)
           /\ last'.arg # <<>> => last'.queried = last'.arg[1].id
           /\ (last'.arg = <<>> /\ builds > 0) =>
                  /\ last'.queried = builds
                  /\ last'.queried = rag_index[1].id
           /\ ~last'.rag_build
           /\ UNCHANGED <<documents, index, rag_index, rag_query_engine>>]_vars

(* C16 witness: query on the RAG object with no index has failed while    *)
(* documents are loaded and an index build was tried but did not succeed  *)
C16_Witness ==
    /\ last.op = "rag.query"
    /\ last.arg = <<>>
    /\ last.result = NoIndex
    /\ documents # <<>>
    /\ "legal_category" \in DOMAIN documents[1].metadata
    /\ builds = 0

(* C18: an index is present only if the corpus is non-empty, and          *)
(* get_document_summary reports the two as they are, never has_index with *)
(* total_documents 0; after construction the corpus is empty and the      *)
(* index absent.                                                          *)
C18_IndexOnlyOverDocuments ==
    /\ index # <<>> => documents # <<>>
    /\ last.op = "__init__" => (documents = <<>> /\ index = <<>>)
    /\ last.op = "get_document_summary" =>
           /\ last.ret[1].total_documents = Len(documents)
           /\ last.ret[1].has_index = (index # <<>>)
           /\ ~(last.ret[1].has_index /\ last.ret[1].total_documents = 0)

(* C18 witness: get_document_summary has reported an index over a         *)
(* non-empty corpus                                                       *)
C18_Witness ==
    /\ last.op = "get_document_summary"
    /\ last.ret[1].has_index
    /\ last.ret[1].total_documents > 0
    /\ index # <<>>

(* the chunks of the first j URLs of urls as <<url, chunk_id, text>>, in  *)
(* list order and in chunk order                                          *)
RECURSIVE ChunkKeysOf(_, _)
ChunkKeysOf(urls, j) ==
    IF j = 0 THEN <<>>
    ELSE ChunkKeysOf(urls, j - 1) \o
         [k \in 1..Len(PageChunks(urls[j])) |->
             <<urls[j], k - 1, PageChunks(urls[j])[k]>>]

(* the Documents a step appended to the corpus, as <<url, chunk_id, text>> *)
AppendedKeys(before, after) ==
    [k \in 1..(Len(after) - Len(before)) |->
        LET d == after[Len(before) + k]
        IN  <<d.metadata["source_url"], d.metadata["chunk_id"], d.text>>]

(* C19: load_documents fetches the URLs in list order; when a load fails  *)
(* it stops there with that load's error, the corpus then holds the       *)
(* chunks of the URLs before the failing one appended in order and        *)
(* nothing of the failing or of a later URL, and no later URL was         *)
(* fetched; when none fails the chunks of all URLs are appended; a        *)
(* failing load_document leaves the corpus as it was.                     *)
C19_LoadDocumentsStopsAtFirstFailure ==
    [][/\ (last'.op = "load_documents" /\ last'.result # NeverReturns) =>
              LET urls == last'.arg
                  fetched == last'.fetched
                  done == IF last'.result = "ok" THEN Len(fetched)
                          ELSE Len(fetched) - 1
              IN  /\ Len(fetched) <= Len(urls)
                  /\ \A k \in 1..Len(fetched) : fetched[k] = urls[k]
                  /\ last'.result = "ok" => fetched = urls
                  /\ last'.result # "ok" =>
                         /\ Len(fetched) >= 1
                         /\ last'.result = FetchFailed
                  /\ SubSeq(documents', 1, Len(documents)) = documents
                  /\ AppendedKeys(documents, documents') = ChunkKeysOf(urls, done)
                  /\ Len(loads') = Len(loads) + done
       /\ (last'.op = "load_document" /\ last'.result # "ok") =>
              /\ documents' = documents
              /\ loads' = loads]_vars

(* C19 witness: load_documents has stopped at a failing URL after it had  *)
(* appended the chunks of the URL before it                               *)
C19_Witness ==
    /\ last.op = "load_documents"
    /\ last.result = FetchFailed
    /\ Len(last.fetched) >= 2
    /\ Len(PageChunks(last.fetched[1])) >= 2
    /\ Len(PageChunks(last.fetched[Len(last.fetched)])) >= 1
    /\ Len(documents) >= 2
    /\ documents[Len(documents)].metadata["source_url"] = last.fetched[1]

-----------------------------------------------------------------------------
(* Claims about fetch_document *)

(* C15: for every retry_attempts fetch_document ends by returning the     *)
(* text of the first successful request, having made no request after     *)
(* it, or by raising the error of the last request after exactly          *)
(* retry_attempts failed requests; it never returns without text.         *)
C15_FetchReturnsTextOrRaises ==
    pc = "fetch_done" =>
        /\ fetch_result.kind \in {"returned", "raised"}
        /\ \A k \in 1..(Len(responses) - 1) : responses[k] \in RequestErrors
        /\ fetch_result.kind = "returned" =>
               /\ Len(responses) >= 1
               /\ responses[Len(responses)] = "response"
               /\ fetch_result.value = <<ResponseText(fetch_url)>>
        /\ fetch_result.kind = "raised" =>
               /\ Len(responses) = retry_attempts
               /\ responses[Len(responses)] \in RequestErrors
               /\ fetch_result.error = responses[Len(responses)]

=============================================================================
